---- MODULE Spec2Model ----
(***************************************************************************)
(* Model of the caching and concurrent-fetch layer of src/src/data_utils.py *)
(* (openFDA dashboard): the TTL cache, the request/response queue pair, the *)
(* worker pool, the APIRateLimiter and fetch_with_cache.                    *)
(*                                                                         *)
(* Time is the integer wall clock in seconds (time.time()).  Threads are    *)
(* interleaved at the granularity of their accesses to shared state.        *)
(***************************************************************************)
EXTENDS Integers, Sequences, FiniteSets, TLC

\* ------------------------------------------------------------------------
\* Program constants
\* ------------------------------------------------------------------------

\* CACHE_TTL = 3600 (data_utils.py:23)
CACHE_TTL == 3600

\* response_queue.get(timeout=30) (data_utils.py:125)
WaitTimeout == 30

\* min(100, max_records): the page size of the API (data_utils.py:144)
PageLimit == 100

\* the one-minute window of APIRateLimiter (data_utils.py:44, 49)
RateWindow == 60

\* time.time() when the module is imported: seconds since 1970, far above
\* CACHE_TTL; the default timestamp 0 of line 114 is therefore always stale.
Epoch == 1700000000

\* ------------------------------------------------------------------------
\* Bounds of the model
\* ------------------------------------------------------------------------

\* MAX_THREADS (data_utils.py:28, 5 in the source): the pool size, scaled.
MAX_THREADS == 2

\* APIRateLimiter(requests_per_min) (data_utils.py:34, default 120), scaled.
requests_per_min == 2

\* calls one caller thread makes in a run
MaxCalls == 3

\* direct wait_if_needed calls a thread makes in the rate limiter's own
\* specification
MaxRateCalls == 3

\* steps of the clock in a run
MaxTicks == 2

\* entries of a params mapping
MaxParams == 2

\* marks a key a mapping does not have
NoEntry == "absent"

\* start_workers with range(MAX_THREADS + 1): one thread too many
WorkersOffByOne == 1..(MAX_THREADS + 1)

\* start_workers (data_utils.py:96-100): range(MAX_THREADS) threads
Workers == 1..MAX_THREADS

\* caller threads: one more than the pool has workers (M > K)
Callers == 1..(MAX_THREADS + 1)

\* cache keys in use: one per caller thread
Keys == 1..(MAX_THREADS + 1)

\* ------------------------------------------------------------------------
\* Payloads: JSON-like mappings, reduced to the keys the code looks at.
\*   error   : NoEntry when the mapping has no "error" key, else its message
\*   results : NoEntry when the mapping has no "results" key, else a version
\* ------------------------------------------------------------------------
Payload(e, r) == [error |-> e, results |-> r]

HasError(p) == p.error /= NoEntry
HasResults(p) == p.results /= NoEntry

\* the bodies an upstream 2xx JSON response can carry
Bodies ==
  { Payload(NoEntry, "r1"), Payload(NoEntry, "r2"),
    Payload("upstream", NoEntry), Payload(NoEntry, NoEntry) }

\* what requests.get / raise_for_status / response.json can do (lines 81-83)
Responses ==
  { [kind |-> "transport", body |-> NoEntry],
    [kind |-> "status", body |-> NoEntry],
    [kind |-> "bad_json", body |-> NoEntry] }
  \cup { [kind |-> "json", body |-> b] : b \in Bodies }

\* worker, lines 81-88: the decoded body on success, {"error": str(e)} when
\* requests.get, raise_for_status or response.json raises
WorkerResult(resp) ==
  IF resp.kind = "json" THEN resp.body ELSE Payload("exception", NoEntry)

\* fetch_with_cache, line 138
TimeoutResult == Payload("timeout", NoEntry)

AllPayloads == Bodies \cup {Payload("exception", NoEntry), TimeoutResult}

VARIABLES
  clock,             \* time.time()
  cache_data,        \* data_utils.py:24
  cache_timestamps,  \* data_utils.py:25
  request_queue,     \* data_utils.py:29
  response_queue,    \* data_utils.py:30
  caller,            \* the threads calling fetch_with_cache
  worker,            \* the pool's threads
  request_times,     \* rate_limiter.request_times
  rl_lock,           \* rate_limiter.lock: 0 or the worker holding it
  rl_returns,        \* times at which wait_if_needed returned
  http_in_flight,    \* requests.get calls sent and not yet answered
  http_calls,        \* requests.get calls sent so far
  clr,               \* the thread calling clear_cache
  sequential,        \* TRUE: one application thread, no overlapping calls
  keyed,             \* cache keys computed from two params mappings
  paged              \* a run of fetch_all_pages

vars == <<clock, cache_data, cache_timestamps, request_queue, response_queue,
          caller, worker, request_times, rl_lock, rl_returns,
          http_in_flight, http_calls, clr, sequential, keyed, paged>>

\* no value returned (yet)
NoPayload == Payload("unset", "unset")

\* no forced refresh precedes the call
NoRefresh == [ret |-> NoPayload, now |-> 0]

\* a thread that has not called fetch_with_cache yet: b calls to make, on
\* the keys ks
IdleCaller(b, ks) ==
  [pc |-> "idle", key |-> 0, force |-> FALSE, now |-> 0, item |-> <<>>,
   getStart |-> 0, waitStart |-> 0, ret |-> NoPayload, via |-> "none",
   clears |-> 0, refreshed |-> NoRefresh, budget |-> b, keys |-> ks]

\* a worker blocked in request_queue.get() (task 0: none)
IdleWorker == [pc |-> "take", task |-> 0, now |-> 0, wake |-> 0, direct |-> 0]

\* the module's globals after import (lines 24-30, 57)
InitShared ==
  /\ clock = Epoch
  /\ cache_data = <<>>
  /\ cache_timestamps = <<>>
  /\ request_queue = <<>>
  /\ response_queue = <<>>
  /\ request_times = <<>>
  /\ rl_lock = 0
  /\ rl_returns = <<>>
  /\ http_in_flight = 0
  /\ http_calls = 0

\* ------------------------------------------------------------------------
\* The cache (CacheStore): two dicts, a key is present when in the DOMAIN
\* ------------------------------------------------------------------------

\* d[k] = v
DictPut(d, k, v) == [x \in (DOMAIN d) \cup {k} |-> IF x = k THEN v ELSE d[x]]

\* cache_timestamps.get(cache_key, 0), line 114
TimestampOf(k) == IF k \in DOMAIN cache_timestamps THEN cache_timestamps[k] ELSE 0

\* line 115 with <= for <: an entry exactly one TTL old still counts as fresh
IsFreshInclusive(now, timestamp) == now - timestamp <= CACHE_TTL

\* the test of line 115
IsFresh(now, timestamp) == now - timestamp < CACHE_TTL

\* lines 113-115 as one condition: an entry for k that a call reading the
\* clock at now may return
FreshEntry(k, now) == k \in DOMAIN cache_data /\ IsFresh(now, TimestampOf(k))

\* ------------------------------------------------------------------------
\* fetch_with_cache (lines 105-138), one action per access to shared state
\* ------------------------------------------------------------------------
InCall(c) == caller[c].pc \notin {"idle", "done", "raised"}

Quiet == \A c \in Callers : ~InCall(c)

\* the forced refresh a new call for k follows: the thread's last call, when
\* that was a force_refresh call for k which stored a result and clear_cache
\* has not been called since
Refreshed(c, k) ==
  IF /\ caller[c].pc = "done"
     /\ caller[c].via = "miss"
     /\ caller[c].force
     /\ caller[c].key = k
     /\ caller[c].clears = clr.budget
  THEN [ret |-> caller[c].ret, now |-> caller[c].now]
  ELSE NoRefresh

\* lines 108-112: the key is computed and the clock is read
CallStart(c, k, f) ==
  /\ ~InCall(c)
  /\ caller[c].budget > 0
  /\ k \in caller[c].keys
  /\ sequential => (Quiet /\ clr.pc = "idle")
  /\ caller' = [caller EXCEPT ![c] =
       [@ EXCEPT !.pc = "check", !.key = k, !.force = f, !.now = clock,
                 !.item = <<>>, !.ret = NoPayload, !.via = "none",
                 !.clears = clr.budget, !.refreshed = Refreshed(c, k),
                 !.budget = @ - 1]]
  /\ UNCHANGED <<clock, cache_data, cache_timestamps, request_queue,
                 response_queue, worker, request_times, rl_lock, rl_returns,
                 http_in_flight, http_calls, clr, sequential, keyed, paged>>

\* line 113: not force_refresh and cache_key in cache_data
CheckCache(c) ==
  /\ caller[c].pc = "check"
  /\ caller' = [caller EXCEPT ![c].pc =
       IF ~caller[c].force /\ caller[c].key \in DOMAIN cache_data
       THEN "readts" ELSE "put"]
  /\ UNCHANGED <<clock, cache_data, cache_timestamps, request_queue,
                 response_queue, worker, request_times, rl_lock, rl_returns,
                 http_in_flight, http_calls, clr, sequential, keyed, paged>>

\* lines 114-115: the timestamp is read and compared
ReadTimestamp(c) ==
  /\ caller[c].pc = "readts"
  /\ caller' = [caller EXCEPT ![c].pc =
       IF IsFresh(caller[c].now, TimestampOf(caller[c].key))
       THEN "readval" ELSE "put"]
  /\ UNCHANGED <<clock, cache_data, cache_timestamps, request_queue,
                 response_queue, worker, request_times, rl_lock, rl_returns,
                 http_in_flight, http_calls, clr, sequential, keyed, paged>>

\* line 117 with a hit that also renews the entry's timestamp
ReadValueTouch(c) ==
  /\ caller[c].pc = "readval"
  /\ caller' = [caller EXCEPT ![c] =
       IF caller[c].key \in DOMAIN cache_data
       THEN [@ EXCEPT !.pc = "done", !.via = "hit",
                      !.ret = cache_data[caller[c].key]]
       ELSE [@ EXCEPT !.pc = "raised", !.via = "raised"]]
  /\ cache_timestamps' =
       [x \in (DOMAIN cache_timestamps) \cup {caller[c].key} |->
          IF x = caller[c].key THEN caller[c].now ELSE cache_timestamps[x]]
  /\ UNCHANGED <<clock, cache_data, request_queue,
                 response_queue, worker, request_times, rl_lock, rl_returns,
                 http_in_flight, http_calls, clr, sequential, keyed, paged>>

\* line 117: return cache_data[cache_key] (KeyError when the key has gone)
ReadValue(c) ==
  /\ caller[c].pc = "readval"
  /\ caller' = [caller EXCEPT ![c] =
       IF caller[c].key \in DOMAIN cache_data
       THEN [@ EXCEPT !.pc = "done", !.via = "hit",
                      !.ret = cache_data[caller[c].key]]
       ELSE [@ EXCEPT !.pc = "raised", !.via = "raised"]]
  /\ UNCHANGED <<clock, cache_data, cache_timestamps, request_queue,
                 response_queue, worker, request_times, rl_lock, rl_returns,
                 http_in_flight, http_calls, clr, sequential, keyed, paged>>

\* line 120 with in-flight deduplication: no task is put for a key that is
\* waiting on request_queue already
PutRequestDedup(c) ==
  /\ caller[c].pc = "put"
  /\ request_queue' =
       IF \E i \in DOMAIN request_queue : request_queue[i] = caller[c].key
       THEN request_queue
       ELSE Append(request_queue, caller[c].key)
  /\ caller' = [caller EXCEPT ![c] =
       [@ EXCEPT !.pc = "get", !.getStart = clock, !.waitStart = clock]]
  /\ UNCHANGED <<clock, cache_data, cache_timestamps, response_queue, worker,
                 request_times, rl_lock, rl_returns, http_in_flight,
                 http_calls, clr, sequential, keyed, paged>>

\* line 120: request_queue.put((endpoint, params, cache_key))
PutRequest(c) ==
  /\ caller[c].pc = "put"
  /\ request_queue' = Append(request_queue, caller[c].key)
  /\ caller' = [caller EXCEPT ![c] =
       [@ EXCEPT !.pc = "get", !.getStart = clock, !.waitStart = clock]]
  /\ UNCHANGED <<clock, cache_data, cache_timestamps, response_queue, worker,
                 request_times, rl_lock, rl_returns, http_in_flight,
                 http_calls, clr, sequential, keyed, paged>>

\* lines 125-126: response_queue.get(timeout=30) returns an item
GetResponse(c) ==
  /\ caller[c].pc = "get"
  /\ response_queue /= <<>>
  /\ response_queue' = Tail(response_queue)
  /\ caller' = [caller EXCEPT ![c] =
       [@ EXCEPT !.item = Head(response_queue),
                 !.pc = IF Head(response_queue)[1] = caller[c].key
                        THEN "store" ELSE "putback"]]
  /\ UNCHANGED <<clock, cache_data, cache_timestamps, request_queue, worker,
                 request_times, rl_lock, rl_returns, http_in_flight,
                 http_calls, clr, sequential, keyed, paged>>

\* lines 136-138 with a retry: the task is put again when the wait times out
GetTimeoutRetry(c) ==
  /\ caller[c].pc = "get"
  /\ response_queue = <<>>
  /\ clock - caller[c].getStart >= WaitTimeout
  /\ caller' = [caller EXCEPT ![c] =
       [@ EXCEPT !.pc = "put", !.getStart = 0, !.waitStart = 0]]
  /\ UNCHANGED <<clock, cache_data, cache_timestamps, request_queue,
                 response_queue, worker, request_times, rl_lock, rl_returns,
                 http_in_flight, http_calls, clr, sequential, keyed, paged>>

\* lines 136-138 with the timeout error stored like a result
GetTimeoutStored(c) ==
  /\ caller[c].pc = "get"
  /\ response_queue = <<>>
  /\ clock - caller[c].getStart >= WaitTimeout
  /\ caller' = [caller EXCEPT ![c] =
       [@ EXCEPT !.pc = "done", !.via = "timeout", !.ret = TimeoutResult,
                 !.getStart = 0, !.waitStart = 0]]
  /\ cache_data' =
       [x \in (DOMAIN cache_data) \cup {caller[c].key} |->
          IF x = caller[c].key THEN TimeoutResult ELSE cache_data[x]]
  /\ UNCHANGED <<clock, cache_timestamps, request_queue,
                 response_queue, worker, request_times, rl_lock, rl_returns,
                 http_in_flight, http_calls, clr, sequential, keyed, paged>>

\* lines 136-138: queue.Empty after 30 seconds on an empty queue
GetTimeout(c) ==
  /\ caller[c].pc = "get"
  /\ response_queue = <<>>
  /\ clock - caller[c].getStart >= WaitTimeout
  /\ caller' = [caller EXCEPT ![c] =
       [@ EXCEPT !.pc = "done", !.via = "timeout", !.ret = TimeoutResult,
                 !.getStart = 0, !.waitStart = 0]]
  /\ UNCHANGED <<clock, cache_data, cache_timestamps, request_queue,
                 response_queue, worker, request_times, rl_lock, rl_returns,
                 http_in_flight, http_calls, clr, sequential, keyed, paged>>

\* line 128 as cache_data.setdefault(cache_key, data): an entry is kept
StoreDataKeep(c) ==
  /\ caller[c].pc = "store"
  /\ cache_data' =
       IF caller[c].key \in DOMAIN cache_data THEN cache_data
       ELSE [x \in (DOMAIN cache_data) \cup {caller[c].key} |->
               IF x = caller[c].key THEN caller[c].item[2] ELSE cache_data[x]]
  /\ caller' = [caller EXCEPT ![c].pc = "stamp"]
  /\ UNCHANGED <<clock, cache_timestamps, request_queue, response_queue,
                 worker, request_times, rl_lock, rl_returns, http_in_flight,
                 http_calls, clr, sequential, keyed, paged>>

\* line 128: cache_data[cache_key] = data
StoreData(c) ==
  /\ caller[c].pc = "store"
  /\ cache_data' = DictPut(cache_data, caller[c].key, caller[c].item[2])
  /\ caller' = [caller EXCEPT ![c].pc = "stamp"]
  /\ UNCHANGED <<clock, cache_timestamps, request_queue, response_queue,
                 worker, request_times, rl_lock, rl_returns, http_in_flight,
                 http_calls, clr, sequential, keyed, paged>>

\* lines 129-131: cache_timestamps[cache_key] = now; return data
StoreTimestamp(c) ==
  /\ caller[c].pc = "stamp"
  /\ cache_timestamps' = DictPut(cache_timestamps, caller[c].key, caller[c].now)
  /\ caller' = [caller EXCEPT ![c] =
       [@ EXCEPT !.pc = "done", !.via = "miss", !.ret = caller[c].item[2],
                 !.item = <<>>, !.getStart = 0, !.waitStart = 0]]
  /\ UNCHANGED <<clock, cache_data, request_queue, response_queue, worker,
                 request_times, rl_lock, rl_returns, http_in_flight,
                 http_calls, clr, sequential, keyed, paged>>

\* lines 134-135 left out: a result for another key is dropped
PutBackDropped(c) ==
  /\ caller[c].pc = "putback"
  /\ caller' = [caller EXCEPT ![c] =
       [@ EXCEPT !.pc = "get", !.item = <<>>, !.getStart = clock]]
  /\ UNCHANGED <<clock, cache_data, cache_timestamps, request_queue,
                 response_queue, worker,
                 request_times, rl_lock, rl_returns, http_in_flight,
                 http_calls, clr, sequential, keyed, paged>>

\* lines 134-135: a result for another key goes back on the queue
PutBack(c) ==
  /\ caller[c].pc = "putback"
  /\ response_queue' = Append(response_queue, caller[c].item)
  /\ caller' = [caller EXCEPT ![c] =
       [@ EXCEPT !.pc = "get", !.item = <<>>, !.getStart = clock]]
  /\ UNCHANGED <<clock, cache_data, cache_timestamps, request_queue, worker,
                 request_times, rl_lock, rl_returns, http_in_flight,
                 http_calls, clr, sequential, keyed, paged>>

\* ------------------------------------------------------------------------
\* APIRateLimiter.wait_if_needed (lines 39-55)
\* ------------------------------------------------------------------------

\* line 44: [t for t in self.request_times if now - t < 60]
Prune(times, now) == SelectSeq(times, LAMBDA t : now - t < RateWindow)

\* lines 46-50: the sleep the pruned window asks for (0: none)
WaitTime(kept, now) ==
  IF Len(kept) >= requests_per_min
  THEN LET oldest == kept[1] IN RateWindow - (now - oldest)
  ELSE 0

\* line 55: self.request_times.append(now), now as read on line 42
Stamp(now, woke) == now

\* a direct call of wait_if_needed has returned at the clock's time; the
\* log keeps the returns of the trailing minute
LogReturn(w) ==
  IF worker[w].task = 0
  THEN rl_returns' =
         Append(SelectSeq(rl_returns, LAMBDA t : clock - t < RateWindow), clock)
  ELSE UNCHANGED rl_returns

\* where a thread goes on when wait_if_needed returns: a worker with a task
\* sends the request (lines 74-81), a direct caller is done
AfterRate(w) ==
  IF worker[w].task = 0
  THEN /\ worker' = [worker EXCEPT ![w] =
            [@ EXCEPT !.pc = "take", !.now = 0, !.wake = 0]]
       /\ UNCHANGED <<http_in_flight, http_calls>>
  ELSE /\ worker' = [worker EXCEPT ![w] =
            [@ EXCEPT !.pc = "http", !.now = 0, !.wake = 0]]
       /\ http_in_flight' = http_in_flight + 1
       /\ http_calls' = http_calls + 1

\* lines 41-50 (and 55 when there is no sleep): under the lock
RateEnter(w) ==
  /\ worker[w].pc = "rate"
  /\ rl_lock = 0
  /\ LET now == clock
         kept == Prune(request_times, now)
         wait == WaitTime(kept, now)
     IN IF wait > 0
        THEN /\ request_times' = kept
             /\ rl_lock' = w
             /\ worker' = [worker EXCEPT ![w] =
                  [@ EXCEPT !.pc = "sleep", !.now = now, !.wake = clock + wait]]
             /\ UNCHANGED <<rl_returns, http_in_flight, http_calls>>
        ELSE /\ request_times' = Append(kept, Stamp(now, clock))
             /\ UNCHANGED rl_lock
             /\ LogReturn(w)
             /\ AfterRate(w)
  /\ UNCHANGED <<clock, cache_data, cache_timestamps, request_queue,
                 response_queue, caller, clr, sequential, keyed, paged>>

\* RateWake without the release of the lock
RateWakeLocked(w) ==
  /\ worker[w].pc = "sleep"
  /\ clock >= worker[w].wake
  /\ request_times' = Append(request_times, Stamp(worker[w].now, clock))
  /\ UNCHANGED rl_lock
  /\ LogReturn(w)
  /\ AfterRate(w)
  /\ UNCHANGED <<clock, cache_data, cache_timestamps, request_queue,
                 response_queue, caller, clr, sequential, keyed, paged>>

\* lines 52-55: time.sleep(wait_time) is over; append, release the lock
RateWake(w) ==
  /\ worker[w].pc = "sleep"
  /\ clock >= worker[w].wake
  /\ request_times' = Append(request_times, Stamp(worker[w].now, clock))
  /\ rl_lock' = 0
  /\ LogReturn(w)
  /\ AfterRate(w)
  /\ UNCHANGED <<clock, cache_data, cache_timestamps, request_queue,
                 response_queue, caller, clr, sequential, keyed, paged>>

\* a thread calls rate_limiter.wait_if_needed() directly
RateCall(w) ==
  /\ worker[w].pc = "take"
  /\ worker[w].direct > 0
  /\ worker' = [worker EXCEPT ![w] =
       [@ EXCEPT !.pc = "rate", !.task = 0, !.direct = @ - 1]]
  /\ UNCHANGED <<clock, cache_data, cache_timestamps, request_queue,
                 response_queue, caller, request_times, rl_lock, rl_returns,
                 http_in_flight, http_calls, clr, sequential, keyed, paged>>

\* ------------------------------------------------------------------------
\* worker (lines 59-93)
\* ------------------------------------------------------------------------

\* lines 63-70 with the test of line 64 turned round: the thread ends on
\* the first task it takes
WorkerTakeAndEnd(w) ==
  /\ worker[w].pc = "take"
  /\ request_queue /= <<>>
  /\ request_queue' = Tail(request_queue)
  /\ worker' = [worker EXCEPT ![w] =
       IF Head(request_queue) /= 0
       THEN [@ EXCEPT !.pc = "ended", !.task = 0]
       ELSE [@ EXCEPT !.pc = "rate", !.task = Head(request_queue)]]
  /\ UNCHANGED <<clock, cache_data, cache_timestamps, response_queue, caller,
                 request_times, rl_lock, rl_returns, http_in_flight,
                 http_calls, clr, sequential, keyed, paged>>

\* lines 63-70: a task is taken (None, written 0, is the sentinel that ends
\* the thread: lines 64-65), wait_if_needed is called
WorkerTake(w) ==
  /\ worker[w].pc = "take"
  /\ request_queue /= <<>>
  /\ request_queue' = Tail(request_queue)
  /\ worker' = [worker EXCEPT ![w] =
       IF Head(request_queue) = 0
       THEN [@ EXCEPT !.pc = "ended", !.task = 0]
       ELSE [@ EXCEPT !.pc = "rate", !.task = Head(request_queue)]]
  /\ UNCHANGED <<clock, cache_data, cache_timestamps, response_queue, caller,
                 request_times, rl_lock, rl_returns, http_in_flight,
                 http_calls, clr, sequential, keyed, paged>>

\* lines 81-88 without the except clause of line 86: a failed request ends
\* the thread and no result is put
WorkerRespondUncaught(w, resp) ==
  /\ worker[w].pc = "http"
  /\ response_queue' =
       IF resp.kind = "json"
       THEN Append(response_queue, <<worker[w].task, WorkerResult(resp)>>)
       ELSE response_queue
  /\ http_in_flight' = http_in_flight - 1
  /\ worker' = [worker EXCEPT ![w] =
       [@ EXCEPT !.pc = IF resp.kind = "json" THEN "take" ELSE "ended",
                 !.task = 0]]
  /\ UNCHANGED <<clock, cache_data, cache_timestamps, request_queue, caller,
                 request_times, rl_lock, rl_returns, http_calls, clr,
                 sequential, keyed, paged>>

\* lines 81-88: the request ends; its result goes on response_queue
WorkerRespond(w, resp) ==
  /\ worker[w].pc = "http"
  /\ response_queue' =
       Append(response_queue, <<worker[w].task, WorkerResult(resp)>>)
  /\ http_in_flight' = http_in_flight - 1
  /\ worker' = [worker EXCEPT ![w] = [@ EXCEPT !.pc = "take", !.task = 0]]
  /\ UNCHANGED <<clock, cache_data, cache_timestamps, request_queue, caller,
                 request_times, rl_lock, rl_returns, http_calls, clr,
                 sequential, keyed, paged>>

\* ------------------------------------------------------------------------
\* clear_cache (lines 204-208)
\* ------------------------------------------------------------------------

\* line 206 as an eviction of expired entries only: fresh ones are kept
ClearDataExpired ==
  /\ clr.pc = "idle"
  /\ clr.budget > 0
  /\ sequential => Quiet
  /\ cache_data' =
       [k \in { x \in DOMAIN cache_data : clock - TimestampOf(x) < CACHE_TTL }
          |-> cache_data[k]]
  /\ clr' = [clr EXCEPT !.pc = "timestamps", !.budget = @ - 1]
  /\ UNCHANGED <<clock, cache_timestamps, request_queue, response_queue,
                 caller, worker, request_times, rl_lock, rl_returns,
                 http_in_flight, http_calls, sequential, keyed, paged>>

\* line 206: cache_data.clear()
ClearData ==
  /\ clr.pc = "idle"
  /\ clr.budget > 0
  /\ sequential => Quiet
  /\ cache_data' = <<>>
  /\ clr' = [clr EXCEPT !.pc = "timestamps", !.budget = @ - 1]
  /\ UNCHANGED <<clock, cache_timestamps, request_queue, response_queue,
                 caller, worker, request_times, rl_lock, rl_returns,
                 http_in_flight, http_calls, sequential, keyed, paged>>

\* line 207: cache_timestamps.clear()
ClearTimestamps ==
  /\ clr.pc = "timestamps"
  /\ cache_timestamps' = <<>>
  /\ clr' = [clr EXCEPT !.pc = "idle"]
  /\ UNCHANGED <<clock, cache_data, request_queue, response_queue, caller,
                 worker, request_times, rl_lock, rl_returns, http_in_flight,
                 http_calls, sequential, keyed, paged>>

\* ------------------------------------------------------------------------
\* Time
\* ------------------------------------------------------------------------

\* the clock moves in steps of the wait timeout, or by what is left of a TTL
TickSteps == {WaitTimeout, CACHE_TTL - WaitTimeout}

TicksTaken ==
  LET x == clock - Epoch
      long == CACHE_TTL - WaitTimeout
  IN (x \div long) + ((x % long) \div WaitTimeout)

\* a thread at which time passes: between calls, blocked in
\* response_queue.get on an empty queue (for at most the timeout), or going
\* round the wait loop with a foreign result in hand (an iteration that
\* began at the present reading of the clock: no iteration lasts two steps
\* of the clock)
CallerWaits(c, d) ==
  \/ caller[c].pc \in {"idle", "done", "raised"}
  \/ /\ caller[c].pc = "putback"
     /\ caller[c].getStart = clock
  \/ /\ caller[c].pc = "get"
     /\ response_queue = <<>>
     /\ clock + d - caller[c].getStart <= WaitTimeout

\* a worker at which time passes: ended, blocked in request_queue.get,
\* waiting for the rate limiter's lock, asleep in it, or waiting for the
\* upstream
WorkerWaits(w, d) ==
  \/ worker[w].pc = "ended"
  \/ worker[w].pc = "http"
  \/ worker[w].pc = "take" /\ request_queue = <<>>
  \/ worker[w].pc = "rate" /\ rl_lock /= 0
  \/ worker[w].pc = "sleep" /\ clock + d <= worker[w].wake

\* Time passes while every thread waits; the steps between two waits take
\* no time.  A blocked get() times out exactly when its 30 seconds are over
\* and time.sleep ends on time.
Tick(d, n) ==
  /\ TicksTaken < n
  /\ \A c \in Callers : CallerWaits(c, d)
  /\ \A w \in Workers : WorkerWaits(w, d)
  /\ clr.pc = "idle"
  /\ clock' = clock + d
  /\ UNCHANGED <<cache_data, cache_timestamps, request_queue, response_queue,
                 caller, worker, request_times, rl_lock, rl_returns,
                 http_in_flight, http_calls, clr, sequential, keyed, paged>>

\* ------------------------------------------------------------------------
\* Specifications
\* ------------------------------------------------------------------------

InitThreads(callers) ==
  /\ InitShared
  /\ keyed = <<>>
  /\ paged = <<>>
  /\ caller = callers
  /\ worker = [w \in Workers |-> IdleWorker]

\* The gateway used by one application thread, which fetches one key
\* (forced or not) and clears the cache, while the clock runs past the TTL.
Init ==
  /\ InitThreads([c \in Callers |->
       IF c = 1 THEN IdleCaller(MaxCalls, {1}) ELSE IdleCaller(0, {})])
  /\ sequential = TRUE
  /\ clr = [pc |-> "idle", budget |-> 1]

Next ==
  \/ \E c \in Callers :
       \/ \E k \in Keys, f \in BOOLEAN : CallStart(c, k, f)
       \/ CheckCache(c)
       \/ ReadTimestamp(c)
       \/ ReadValue(c)
       \/ PutRequest(c)
       \/ GetResponse(c)
       \/ GetTimeout(c)
       \/ StoreData(c)
       \/ StoreTimestamp(c)
  \/ \E w \in Workers :
       \/ WorkerTake(w)
       \/ RateEnter(w)
       \/ RateWake(w)
       \/ \E resp \in Responses : WorkerRespond(w, resp)
  \/ ClearData
  \/ ClearTimestamps
  \/ \E d \in TickSteps : Tick(d, MaxTicks)

Spec == Init /\ [][Next]_vars

\* ------------------------------------------------------------------------
\* Claims about the gateway used by one thread (Spec)
\* ------------------------------------------------------------------------

\* C1: a fetch whose upstream request failed leaves no entry for its key in
\* the cache, so that the next fetch for the key is not answered from the
\* cache with the error: no error-shaped payload is ever stored in
\* cache_data, and no cache hit returns one.
C1_ErrorsAreNotCached ==
  /\ \A k \in DOMAIN cache_data : ~HasError(cache_data[k])
  /\ \A c \in Callers :
       (caller[c].pc = "done" /\ caller[c].via = "hit") => ~HasError(caller[c].ret)

\* the step of a call that returns from the cache (line 117)
HitReturn(c) == caller[c].pc = "readval" /\ caller'[c].pc = "done"

\* the step of a call that puts its task on request_queue (line 120)
Enqueues(c) == caller[c].pc = "put" /\ caller'[c].pc = "get"

\* an entry for k is stored and less than one TTL older than now
StoredAndYoung(k, now) ==
  /\ k \in DOMAIN cache_data
  /\ k \in DOMAIN cache_timestamps
  /\ now - cache_timestamps[k] < CACHE_TTL

\* C4: a call with force_refresh = false returns from the cache only when an
\* entry for its key exists with now - stored_at < CACHE_TTL, then returns
\* the stored value and enqueues nothing; and it enqueues a task only when
\* there is no such entry (none at all, or one with now - stored_at >=
\* CACHE_TTL).
C4_TtlFreshness ==
  [][\A c \in Callers :
       /\ HitReturn(c) =>
            /\ StoredAndYoung(caller[c].key, caller[c].now)
            /\ caller'[c].ret = cache_data[caller[c].key]
            /\ request_queue' = request_queue
       /\ (Enqueues(c) /\ ~caller[c].force) =>
            ~StoredAndYoung(caller[c].key, caller[c].now)]_vars

\* C4's case: a hit on an entry stored some time ago, and within the TTL
C4_Witness ==
  \E c \in Callers :
    /\ caller[c].pc = "done"
    /\ caller[c].via = "hit"
    /\ caller[c].key \in DOMAIN cache_timestamps
    /\ caller[c].now - cache_timestamps[caller[c].key] > 0
    /\ caller[c].ret = cache_data[caller[c].key]

\* C6: whatever goes wrong, the call returns a mapping with an "error" key:
\* a finished call has either returned usable results or an error-shaped
\* mapping, and no call has raised.
C6_UniformErrorShape ==
  \A c \in Callers :
    /\ caller[c].pc /= "raised"
    /\ caller[c].pc = "done" =>
         (HasError(caller[c].ret) \/ HasResults(caller[c].ret))

\* a step of a call on its way to a cache hit (lines 113-117)
HitPathStep(c) ==
  \/ caller[c].pc = "check" /\ caller'[c].pc = "readts"
  \/ caller[c].pc = "readts" /\ caller'[c].pc = "readval"
  \/ caller[c].pc = "readval" /\ caller'[c].pc = "done"

\* C8: the steps of a call that finds a fresh entry (force_refresh false)
\* put nothing on request_queue, take nothing off response_queue, start no
\* upstream call and leave cache_data and cache_timestamps as they are.
C8_HitHasNoSideEffects ==
  [][\A c \in Callers :
       HitPathStep(c) =>
         UNCHANGED <<request_queue, response_queue, cache_data,
                     cache_timestamps, http_in_flight, http_calls>>]_vars

\* C8's case: a call has returned from the cache
C8_Witness ==
  \E c \in Callers :
    /\ caller[c].pc = "done"
    /\ caller[c].via = "hit"
    /\ ~caller[c].force
    /\ caller[c].item = <<>>

\* C9: a force_refresh call enqueues its task whatever the cache holds; when
\* it returns a result, the entry's value is that result and its timestamp
\* is the call's; and the call that follows it for the same key without
\* force_refresh, within the TTL and with no clear_cache in between, returns
\* that result from the cache.
C9_ForcedRefresh ==
  [][\A c \in Callers :
       /\ (caller[c].pc = "check" /\ caller[c].force /\ caller'[c] /= caller[c])
            => caller'[c].pc = "put"
       /\ (Enqueues(c) /\ caller[c].force)
            => request_queue' = Append(request_queue, caller[c].key)
       /\ (caller[c].pc = "stamp" /\ caller'[c].pc = "done" /\ caller[c].force)
            => /\ caller[c].key \in DOMAIN cache_data'
               /\ cache_data'[caller[c].key] = caller'[c].ret
               /\ cache_timestamps'[caller[c].key] = caller[c].now
       /\ ( /\ caller'[c].refreshed /= NoRefresh
            /\ ~caller'[c].force
            /\ caller'[c].now - caller'[c].refreshed.now < CACHE_TTL )
            => \/ caller'[c].pc \in {"check", "readts", "readval"}
               \/ /\ caller'[c].pc = "done"
                  /\ caller'[c].via = "hit"
                  /\ caller'[c].ret = caller'[c].refreshed.ret]_vars

\* C9's case: a forced refresh over a fresh entry has replaced it, and the
\* next call has returned the new payload from the cache
C9_Witness ==
  \E c \in Callers :
    /\ caller[c].pc = "done"
    /\ caller[c].via = "hit"
    /\ caller[c].refreshed /= NoRefresh
    /\ caller[c].ret = caller[c].refreshed.ret
    /\ caller[c].budget = 0

\* the places of a call that ends with the timeout: before the cache test,
\* before the put, and in the wait loop
TimeoutPath == {"check", "put", "get", "putback"}

\* the step on which the wait gives up
TimesOut(c) ==
  /\ caller[c].pc = "get"
  /\ caller'[c].pc \in {"done", "raised"}

\* C13: a wait that times out ends the call with a mapping that has an
\* "error" key, nothing is raised, and from the start of the call to its
\* return cache_data and cache_timestamps are not touched.
C13_TimeoutLeavesCache ==
  [][\A c \in Callers :
       /\ TimesOut(c) =>
            /\ caller'[c].pc = "done"
            /\ caller'[c].ret.error /= NoEntry
       /\ caller[c].pc \in TimeoutPath =>
            /\ cache_data' = cache_data
            /\ cache_timestamps' = cache_timestamps]_vars

\* a forced call has timed out over the entry an earlier call stored
C13_Witness ==
  \E c \in Callers :
    /\ caller[c].pc = "done"
    /\ caller[c].via = "timeout"
    /\ caller[c].key \in DOMAIN cache_data
    /\ caller[c].key \in DOMAIN cache_timestamps
    /\ cache_data[caller[c].key].results /= NoEntry

\* c has put its task on request_queue
HasEnqueued(c) ==
  \/ caller[c].pc \in {"get", "store", "stamp", "putback"}
  \/ caller[c].pc = "done" /\ caller[c].via \in {"miss", "timeout"}

\* calls of fetch_with_cache begun so far by the application thread
CallsBegun == MaxCalls - caller[1].budget

\* tasks that exist or were sent upstream: waiting on request_queue, in a
\* worker's hands before its request, or counted as a request
TasksSoFar ==
  Len(request_queue)
    + Cardinality({ w \in Workers : worker[w].pc \in {"rate", "sleep"} })
    + http_calls

\* c is past line 120
PastPut(c) == caller[c].pc \in {"get", "putback", "store", "stamp"}

\* C14: one call of fetch_with_cache puts at most one task on request_queue
\* and so causes at most one upstream request, whether the request succeeds,
\* fails or is not answered in time: a call never comes back to line 120,
\* each put adds one task, each task is sent at most once.
C14_NoRetries ==
  /\ [](TasksSoFar <= CallsBegun)
  /\ [][/\ \A c \in Callers :
            PastPut(c) => caller'[c].pc \in {"get", "putback", "store",
                                             "stamp", "done", "raised"}
        /\ Len(request_queue') <= Len(request_queue) + 1
        /\ http_calls' \in {http_calls, http_calls + 1}
        /\ TasksSoFar' \in {TasksSoFar, TasksSoFar + 1}]_vars

\* a call whose request failed and a call that timed out are over, with one
\* request each
C14_Witness ==
  /\ caller[1].pc = "done"
  /\ caller[1].via = "timeout"
  /\ CallsBegun = 2
  /\ http_calls = 2
  /\ \E k \in DOMAIN cache_data : cache_data[k].error = "exception"

\* clear_cache has returned and no fetch has begun since (a call records, in
\* clears, how many clear_cache calls were still to come when it began)
JustCleared ==
  /\ clr.pc = "idle"
  /\ clr.budget = 0
  /\ \A c \in Callers :
       /\ ~InCall(c)
       /\ caller[c].pc = "idle" \/ caller[c].clears /= clr.budget

\* c begins a call
Begins(c) == ~InCall(c) /\ caller'[c].pc = "check"

\* C15: after clear_cache has returned, with no fetch running meanwhile,
\* cache_data and cache_timestamps are both empty, and the next fetch (not
\* forced, for any key) finds them so and puts a task instead of returning a
\* cached value.
C15_ClearEmptiesStore ==
  /\ [](JustCleared => (cache_data = <<>> /\ cache_timestamps = <<>>))
  /\ [][\A c \in Callers :
          /\ (JustCleared /\ Begins(c)) =>
               (cache_data' = <<>> /\ cache_timestamps' = <<>>)
          /\ (/\ caller[c].pc = "check"
              /\ cache_data = <<>>
              /\ cache_timestamps = <<>>)
             => caller'[c].pc \in {"check", "put"}]_vars

\* the second call of the thread, begun after the clear_cache that followed
\* its first (which stored an entry, no time having passed), has put a task
C15_Witness ==
  /\ clr.pc = "idle"
  /\ clr.budget = 0
  /\ caller[1].pc = "get"
  /\ ~caller[1].force
  /\ caller[1].clears = 0
  /\ CallsBegun = 2
  /\ http_calls = 1
  /\ clock = Epoch

\* the step on which a call writes its entry's timestamp (line 129)
WritesTimestamp(c) == caller[c].pc = "stamp" /\ caller'[c].pc = "done"

\* C16: the timestamp fetch_with_cache stores with an entry is the wall-clock
\* time at which the matching response reached the caller (the time of the
\* write), not the time at which the call began.
C16_StoredAtIsArrival ==
  [][\A c \in Callers :
       WritesTimestamp(c) =>
         /\ caller[c].key \in DOMAIN cache_timestamps'
         /\ cache_timestamps'[caller[c].key] = clock]_vars

\* the step on which worker w is done with its request
RequestEnds(w) == worker[w].pc = "http" /\ worker'[w] /= worker[w]

\* a decoded body, or a mapping with an "error" key and nothing else
ResultShaped(p) ==
  \/ p \in Bodies
  \/ p.error /= NoEntry /\ p.results = NoEntry

\* C18: for each task a worker takes, it puts exactly one result on
\* response_queue, tagged with the task's cache key (the decoded JSON, or an
\* error mapping when the request failed in whatever way), and then goes
\* back to take the next task: no failed request ends a worker thread.
C18_WorkerErrorsAreData ==
  /\ [](\A w \in Workers : worker[w].pc \in {"take", "rate", "sleep", "http"})
  /\ [][\A w \in Workers :
          /\ RequestEnds(w) =>
               /\ worker'[w].pc = "take"
               /\ Len(response_queue') = Len(response_queue) + 1
               /\ SubSeq(response_queue', 1, Len(response_queue))
                    = response_queue
               /\ response_queue'[Len(response_queue')][1] = worker[w].task
               /\ ResultShaped(response_queue'[Len(response_queue')][2])
          /\ (worker[w].pc \in {"rate", "sleep"} /\ worker[w].task /= 0) =>
               /\ response_queue' = response_queue \/ worker'[w] = worker[w]
               /\ worker'[w].task = worker[w].task]_vars

\* a request has failed, its error mapping waits on response_queue for the
\* caller, and every worker is back in request_queue.get
C18_Witness ==
  /\ \A w \in Workers : worker[w].pc = "take"
  /\ http_calls = 1
  /\ Len(response_queue) = 1
  /\ response_queue[1][2].error = "exception"
  /\ \E c \in Callers : caller[c].pc = "get" /\ caller[c].key = response_queue[1][1]

\* the worker threads that have not ended
LiveWorkers == { w \in Workers : worker[w].pc /= "ended" }

\* C23: from the moment start_workers has run, MAX_THREADS worker threads
\* are alive, and their number never changes, whatever fetches, failures,
\* timeouts and clear_cache calls follow and whatever is taken from
\* request_queue.
C23_PoolSizeFixed ==
  /\ [](Cardinality(LiveWorkers) = MAX_THREADS)
  /\ [][Cardinality(LiveWorkers') = Cardinality(LiveWorkers)]_vars

\* a request has failed, a call has timed out, clear_cache has run, MaxCalls
\* requests were sent, and every worker thread is alive
C23_Witness ==
  /\ Cardinality(LiveWorkers) = MAX_THREADS
  /\ clr.pc = "idle"
  /\ clr.budget = 0
  /\ caller[1].pc = "done"
  /\ caller[1].via = "timeout"
  /\ http_calls = MaxCalls
  /\ \E k \in DOMAIN cache_data : cache_data[k].error = "exception"

\* no task is queued and no worker is processing one
WorkersIdle ==
  /\ request_queue = <<>>
  /\ \A w \in Workers : worker[w].pc \in {"take", "ended"}

\* C26: every result a worker puts on response_queue is removed by a call
\* that returns it: whenever no fetch_with_cache call is in progress and no
\* task is queued or being processed, response_queue is empty, also after
\* calls that timed out.
C26_NoOrphanedResults ==
  (Quiet /\ WorkersIdle) => response_queue = <<>>

\* a call takes an item of response_queue as the answer to its request
TakesAnswer(c) == caller[c].pc = "get" /\ caller'[c].pc = "store"

\* C27: the payload a call returns and caches after a cache miss comes from
\* an upstream request that started after the call began, never from a
\* request that an earlier call enqueued for the same key.  The calls of
\* this specification come one after the other from one thread, so the
\* task of the running call is the last on request_queue: a call that
\* takes its answer while its own task is still queued has the answer to
\* the task of an earlier call.
C27_ResultFreshness ==
  [][\A c \in Callers : TakesAnswer(c) => request_queue = <<>>]_vars

\* ------------------------------------------------------------------------
\* One thread fetching two keys, with calls that time out (SpecStale)
\* ------------------------------------------------------------------------
InitStale ==
  /\ InitThreads([c \in Callers |->
       IF c = 1 THEN IdleCaller(MaxCalls - 1, {1, 2}) ELSE IdleCaller(0, {})])
  /\ sequential = TRUE
  /\ clr = [pc |-> "idle", budget |-> 0]

NextStale ==
  \/ \E c \in Callers :
       \/ \E k \in Keys : CallStart(c, k, FALSE)
       \/ CheckCache(c)
       \/ ReadTimestamp(c)
       \/ ReadValue(c)
       \/ PutRequest(c)
       \/ GetResponse(c)
       \/ GetTimeout(c)
       \/ StoreData(c)
       \/ StoreTimestamp(c)
       \/ PutBack(c)
  \/ \E w \in Workers :
       \/ WorkerTake(w)
       \/ RateEnter(w)
       \/ \E resp \in Responses : WorkerRespond(w, resp)
  \/ Tick(WaitTimeout, MaxTicks + 1)

SpecStale == InitStale /\ [][NextStale]_vars

\* no result for the key of c's call is on response_queue
NoMatchingResult(c) ==
  \A i \in DOMAIN response_queue : response_queue[i][1] /= caller[c].key

\* C2: a call for which no matching result has been pushed is over (with an
\* error-shaped result) once the wait timeout has passed since it began to
\* wait: no call is still in its wait loop, without a matching result on the
\* queue, more than WaitTimeout seconds after it entered the loop.
C2_ReturnsWithinTimeout ==
  \A c \in Callers :
    (caller[c].pc \in {"get", "putback"} /\ NoMatchingResult(c))
      => clock - caller[c].waitStart <= WaitTimeout

\* usable results for k wait on response_queue: with one calling thread that
\* is about to test the cache, the result of a request whose call timed out
LateResultFor(k) ==
  \E i \in DOMAIN response_queue :
    /\ response_queue[i][1] = k
    /\ response_queue[i][2].results /= NoEntry

\* C21: when a call has timed out and the worker completes its request
\* afterwards, the result is kept so that a later identical request (same
\* key, within the TTL) is satisfied by its cache lookup: the call that
\* tests the cache while the late result for its key exists takes the hit
\* path.
C21_LateResultServesLookup ==
  [][\A c \in Callers :
       (/\ caller[c].pc = "check"
        /\ caller'[c].pc /= "check"
        /\ LateResultFor(caller[c].key))
       => caller'[c].pc = "readts"]_vars

\* ------------------------------------------------------------------------
\* More concurrent callers than workers, each with a key of its own
\* (SpecPool)
\* ------------------------------------------------------------------------
InitPool ==
  /\ InitThreads([c \in Callers |-> IdleCaller(1, {c})])
  /\ sequential = FALSE
  /\ clr = [pc |-> "idle", budget |-> 0]

\* the upstream answers every request with results
PoolResponses == { [kind |-> "json", body |-> Payload(NoEntry, "r1")] }

NextPool ==
  \/ \E c \in Callers :
       \/ \E k \in Keys : CallStart(c, k, FALSE)
       \/ CheckCache(c)
       \/ PutRequest(c)
       \/ GetResponse(c)
       \/ GetTimeout(c)
       \/ StoreData(c)
       \/ StoreTimestamp(c)
       \/ PutBack(c)
  \/ \E w \in Workers :
       \/ WorkerTake(w)
       \/ RateEnter(w)
       \/ RateWake(w)
       \/ \E resp \in PoolResponses : WorkerRespond(w, resp)
  \/ Tick(WaitTimeout, MaxTicks)

SpecPool == InitPool /\ [][NextPool]_vars

\* C5: with MAX_THREADS workers and more concurrent calls for distinct
\* uncached keys than workers, at most MAX_THREADS upstream requests are in
\* flight in every reachable state.
C5_PoolBounded == http_in_flight <= MAX_THREADS

\* C5's case: every caller is waiting for its own key, the pool is
\* saturated and a task is left waiting on request_queue
C5_Witness ==
  /\ \A c \in Callers : caller[c].pc = "get" /\ caller[c].key = c
  /\ http_in_flight = MAX_THREADS
  /\ request_queue /= <<>>

\* where the task put for key k, or its result, is: each place counts the
\* copies it holds
OnRequestQueue(k) ==
  Cardinality({ i \in DOMAIN request_queue : request_queue[i] = k })

WithWorker(k) ==
  Cardinality({ w \in Workers : worker[w].task = k })

OnResponseQueue(k) ==
  Cardinality({ i \in DOMAIN response_queue : response_queue[i][1] = k })

\* in the hands of a caller that is about to put it back
HeldByOther(k) ==
  Cardinality({ c \in Callers :
                  caller[c].pc = "putback" /\ caller[c].item[1] = k })

\* taken by the caller that asked for it
TakenByOwner(k) ==
  Cardinality({ c \in Callers :
                  /\ caller[c].key = k
                  /\ \/ caller[c].pc \in {"store", "stamp"}
                     \/ caller[c].pc = "done" /\ caller[c].via = "miss" })

\* a task has been put for k (each caller has a key of its own)
TaskPutFor(k) == \E c \in Callers : caller[c].key = k /\ HasEnqueued(c)

\* C17: a call returns and caches only a result tagged with its own key;
\* every result with another key that it takes off response_queue goes back
\* on response_queue, unchanged, before the call dequeues again or returns:
\* the task put for a key, or its one result, is always somewhere (waiting,
\* with a worker, on response_queue, in the hands of a caller that puts it
\* back next, or taken by its owner), so no result is lost.
C17_RequeueOnMismatch ==
  /\ [](\A k \in Keys :
          TaskPutFor(k) =>
            OnRequestQueue(k) + WithWorker(k) + OnResponseQueue(k)
              + HeldByOther(k) + TakenByOwner(k) = 1)
  /\ [](\A c \in Callers :
          /\ caller[c].pc \in {"store", "stamp"} =>
               caller[c].item[1] = caller[c].key
          /\ caller[c].pc = "putback" => caller[c].item[1] /= caller[c].key
          /\ (caller[c].pc = "done" /\ caller[c].via = "miss") =>
               (/\ caller[c].key \in DOMAIN cache_data
                /\ cache_data[caller[c].key] = caller[c].ret))
  /\ [][\A c \in Callers :
          caller[c].pc = "putback" =>
            \/ caller'[c] = caller[c]
            \/ /\ caller'[c].pc = "get"
               /\ response_queue' = Append(response_queue, caller[c].item)]_vars

\* a caller holds the result another caller is waiting for, on its way back
\* to response_queue
C17_Witness ==
  \E c, d \in Callers :
    /\ caller[c].pc = "putback"
    /\ caller[d].pc = "get"
    /\ caller[c].item[1] = caller[d].key

\* ------------------------------------------------------------------------
\* The rate limiter called directly by concurrent threads (SpecRate)
\* ------------------------------------------------------------------------

\* threads calling wait_if_needed back to back
InitRate ==
  /\ InitShared
  /\ keyed = <<>>
  /\ paged = <<>>
  /\ sequential = FALSE
  /\ caller = [c \in Callers |-> IdleCaller(0, {})]
  /\ worker = [w \in Workers |-> [IdleWorker EXCEPT !.direct = MaxRateCalls]]
  /\ clr = [pc |-> "idle", budget |-> 0]

NextRate ==
  \/ \E w \in Workers : RateCall(w) \/ RateEnter(w) \/ RateWake(w)
  \/ Tick(WaitTimeout, MaxTicks + 1)

SpecRate == InitRate /\ [][NextRate]_vars

\* the returns of wait_if_needed in the 60 seconds that end with the i-th
\* logged return
ReturnsInWindow(i) ==
  { j \in DOMAIN rl_returns :
      /\ rl_returns[j] <= rl_returns[i]
      /\ rl_returns[i] - rl_returns[j] < RateWindow }

\* C3: no trailing 60-second window contains more than requests_per_min
\* returns of wait_if_needed.
C3_RateLimitBound ==
  \A i \in DOMAIN rl_returns :
    Cardinality(ReturnsInWindow(i)) <= requests_per_min

\* ------------------------------------------------------------------------
\* The cache key of fetch_with_cache (SpecKey)
\*
\* A string is the sequence of its pieces; the text of a key or of a value
\* is one piece (json.dumps escapes the quotes inside a text, so the pieces
\* of a dump are read back unambiguously).
\* ------------------------------------------------------------------------

\* the names the callers use for parameters, in the order of str.__lt__
ParamNames == <<"count", "limit", "search">>

\* the values the callers pass: strings, and integers (written in decimal)
ParamValues ==
  { [type |-> "str", text |-> "100"], [type |-> "int", text |-> "100"],
    [type |-> "str", text |-> "a"] }

\* the names a request's params can have, the worker's "api_key" (line 78)
\* and the "skip" of fetch_all_pages (line 151) included, in the order of
\* str.__lt__
KeyOrder == <<"api_key", "count", "limit", "search", "skip">>

\* the place of a name in the sorted order of the names
Rank(name) == CHOOSE i \in DOMAIN KeyOrder : KeyOrder[i] = name

\* the items of a dict in insertion order: <<name, value>> with distinct
\* names, at most n of them
RECURSIVE ItemLists(_)
ItemLists(n) ==
  IF n = 0 THEN { <<>> }
  ELSE LET shorter == ItemLists(n - 1)
       IN  shorter \cup
           { Append(items, <<ParamNames[i], v>>) :
               items \in { l \in shorter : Len(l) = n - 1 },
               i \in DOMAIN ParamNames, v \in ParamValues }

DistinctNames(items) ==
  \A i, j \in DOMAIN items : items[i][1] = items[j][1] => i = j

\* params: None (given = FALSE) or a dict
NoParams == [given |-> FALSE, items |-> <<>>]
ParamsChoices ==
  { NoParams } \cup
  { [given |-> TRUE, items |-> l] :
      l \in { m \in ItemLists(MaxParams) : DistinctNames(m) } }

\* sorted(items) by name, as the encoder does under sort_keys=True
RECURSIVE InsertItem(_, _)
InsertItem(item, sorted) ==
  IF sorted = <<>> THEN <<item>>
  ELSE IF Rank(item[1]) <= Rank(Head(sorted)[1])
       THEN <<item>> \o sorted
       ELSE <<Head(sorted)>> \o InsertItem(item, Tail(sorted))

RECURSIVE SortItems(_)
SortItems(items) ==
  IF items = <<>> THEN <<>>
  ELSE InsertItem(Head(items), SortItems(Tail(items)))

\* json.dumps(params) without sort_keys: the items as they were inserted
DumpOrderInserted(items) == items

\* json.dumps(params, sort_keys=True), line 108: the order of the items
DumpOrder(items) == SortItems(items)

\* a JSON string in quotes, an integer bare
JsonValue(v) ==
  IF v.type = "str" THEN <<"\"", v.text, "\"">> ELSE <<v.text>>

JsonItem(item) == <<"\"", item[1], "\"", ": ">> \o JsonValue(item[2])

RECURSIVE JsonItems(_)
JsonItems(items) ==
  IF items = <<>> THEN <<>>
  ELSE IF Len(items) = 1 THEN JsonItem(Head(items))
  ELSE JsonItem(Head(items)) \o <<", ">> \o JsonItems(Tail(items))

json_dumps(items) == <<"{">> \o JsonItems(DumpOrder(items)) \o <<"}">>

\* line 108: json.dumps(params, sort_keys=True) if params else ""
params_str(params) ==
  IF params.given /\ params.items /= <<>> THEN json_dumps(params.items)
  ELSE <<>>

\* line 109: f"{endpoint}_{params_str}"
cache_key(endpoint, params) == <<endpoint, "_">> \o params_str(params)

\* the endpoint of the two calls
Endpoint == "drug/event.json"

\* two calls of fetch_with_cache on one endpoint, up to line 109
InitKey ==
  /\ InitShared
  /\ caller = [c \in Callers |-> IdleCaller(0, {})]
  /\ worker = [w \in Workers |-> IdleWorker]
  /\ sequential = TRUE
  /\ clr = [pc |-> "idle", budget |-> 0]
  /\ paged = <<>>
  /\ \E a, b \in ParamsChoices :
       keyed = [params |-> <<a, b>>, key |-> <<NoEntry, NoEntry>>]

\* the i-th call computes its cache key
CacheKey(i) ==
  /\ keyed.key[i] = NoEntry
  /\ keyed' = [keyed EXCEPT !.key[i] = cache_key(Endpoint, keyed.params[i])]
  /\ UNCHANGED <<clock, cache_data, cache_timestamps, request_queue,
                 response_queue, caller, worker, request_times, rl_lock,
                 rl_returns, http_in_flight, http_calls, clr, sequential,
                 paged>>

NextKey == \E i \in 1..2 : CacheKey(i)

SpecKey == InitKey /\ [][NextKey]_vars

\* the key/value pairs of a mapping
Pairs(params) == { params.items[i] : i \in DOMAIN params.items }

BothKeyed ==
  /\ keyed.key[1] /= NoEntry
  /\ keyed.key[2] /= NoEntry
  /\ keyed.params[1].given
  /\ keyed.params[2].given

\* C7: for one endpoint, two params mappings get the same cache key when
\* they hold the same key/value pairs (in whatever insertion order), and
\* different cache keys when they differ in some key or value.
C7_CacheKeyDeterminism ==
  BothKeyed =>
    ((Pairs(keyed.params[1]) = Pairs(keyed.params[2]))
       <=> (keyed.key[1] = keyed.key[2]))

\* two mappings of the same two pairs, inserted in opposite orders, keyed
C7_Witness ==
  /\ BothKeyed
  /\ Len(keyed.params[1].items) = 2
  /\ keyed.params[1].items /= keyed.params[2].items
  /\ Pairs(keyed.params[1]) = Pairs(keyed.params[2])
  /\ keyed.key[1] = keyed.key[2]

\* ------------------------------------------------------------------------
\* The params mapping of a call, shared with the worker (SpecParams): the
\* task of line 120 holds the caller's dict itself, not a copy.
\* ------------------------------------------------------------------------

\* params[name] = v on the items of a dict
SetItem(items, name, v) ==
  IF \E i \in DOMAIN items : items[i][1] = name
  THEN [i \in DOMAIN items |->
          IF items[i][1] = name THEN <<name, v>> ELSE items[i]]
  ELSE Append(items, <<name, v>>)

\* the value of API_KEY when one is configured (line 20)
ApiKeyValue == [type |-> "str", text |-> "a"]

\* lines 75-78 on the dict the task refers to: with a key configured, a
\* non-empty dict gets the entry "api_key"; None and {} are replaced by a
\* new dict, which the caller never sees
AfterApiKey(configured, params) ==
  IF configured /\ params.given /\ params.items /= <<>>
  THEN [params EXCEPT !.items = SetItem(@, "api_key", ApiKeyValue)]
  ELSE params

\* a caller about to call fetch_with_cache twice with one params object
InitParams ==
  /\ InitShared
  /\ caller = [c \in Callers |-> IdleCaller(0, {})]
  /\ worker = [w \in Workers |-> IdleWorker]
  /\ sequential = TRUE
  /\ clr = [pc |-> "idle", budget |-> 0]
  /\ paged = <<>>
  /\ \E configured \in BOOLEAN, p \in ParamsChoices :
       keyed = [pc |-> "call", api_key |-> configured, params |-> p,
                before |-> p, key |-> <<NoEntry, NoEntry>>]

UnchangedByParams ==
  UNCHANGED <<clock, cache_data, cache_timestamps, request_queue,
              response_queue, caller, worker, request_times, rl_lock,
              rl_returns, http_in_flight, http_calls, clr, sequential, paged>>

\* lines 108-120: the first call computes its key and puts its task
FirstCall ==
  /\ keyed.pc = "call"
  /\ keyed' = [keyed EXCEPT !.pc = "task",
                            !.key[1] = cache_key(Endpoint, keyed.params)]
  /\ UnchangedByParams

\* lines 67-84: the worker processes the task
WorkerApiKey ==
  /\ keyed.pc = "task"
  /\ keyed' = [keyed EXCEPT !.pc = "returned",
                            !.params = AfterApiKey(keyed.api_key, @)]
  /\ UnchangedByParams

\* lines 108-109 of the second call, with the same object
SecondCall ==
  /\ keyed.pc = "returned"
  /\ keyed' = [keyed EXCEPT !.pc = "again",
                            !.key[2] = cache_key(Endpoint, keyed.params)]
  /\ UnchangedByParams

NextParams == FirstCall \/ WorkerApiKey \/ SecondCall

SpecParams == InitParams /\ [][NextParams]_vars

\* C24: fetch_with_cache leaves the params mapping of its caller as it was,
\* with or without an API key configured: after the call and the worker's
\* processing the mapping has the keys and values it had before, and a
\* second call with the same object computes the same cache key.
C24_ParamsUnchanged ==
  /\ keyed.pc \in {"returned", "again"} => keyed.params = keyed.before
  /\ keyed.pc = "again" => keyed.key[2] = keyed.key[1]

\* ------------------------------------------------------------------------
\* fetch_all_pages (SpecPages).  A list of records is modelled by its
\* length; fetch_with_cache is the environment, which answers each page
\* with an error, a body without "results", or a list of records.
\* ------------------------------------------------------------------------

\* max_records as callers pass it (1000 is the default, line 140)
MaxRecordsChoices == {50, 100, 250, 1000}

\* the "limit" entry of the caller's params: none, or a number of records
ParamLimitChoices ==
  { [present |-> FALSE, value |-> 0], [present |-> TRUE, value |-> 10],
    [present |-> TRUE, value |-> 1000] }

\* what fetch_with_cache returns for a page
PageData ==
  { [kind |-> "error", n |-> 0], [kind |-> "no_results", n |-> 0] }
  \cup { [kind |-> "results", n |-> n] : n \in {0, 50, 100, 1000} }

Min(a, b) == IF a <= b THEN a ELSE b

\* line 154: "error" in data or "results" not in data or not data["results"]
NoMoreData(data) == data.kind /= "results" \/ data.n = 0

\* a page that ends the loop although it is full
ShortPageInclusive(n, limit) == n <= limit

\* line 161: len(results) < limit
ShortPage(n, limit) == n < limit

\* lines 142-149: the locals before the loop
InitPages ==
  /\ InitShared
  /\ caller = [c \in Callers |-> IdleCaller(0, {})]
  /\ worker = [w \in Workers |-> IdleWorker]
  /\ sequential = TRUE
  /\ clr = [pc |-> "idle", budget |-> 0]
  /\ keyed = <<>>
  /\ \E m \in MaxRecordsChoices, l \in ParamLimitChoices :
       LET limit == Min(PageLimit, m)
       IN  paged = [pc |-> "loop", max_records |-> m, limit |-> limit,
                    param_limit |-> IF l.present THEN l.value ELSE limit,
                    param_skip |-> [present |-> FALSE, value |-> 0], skip |-> 0, all_results |-> 0,
                    requests |-> 0, pages |-> <<>>, ret |-> 0]

UnchangedByPages ==
  UNCHANGED <<clock, cache_data, cache_timestamps, request_queue,
              response_queue, caller, worker, request_times, rl_lock,
              rl_returns, http_in_flight, http_calls, clr, sequential,
              keyed>>

\* FetchPage without lines 157-158: the page is not added to the records
FetchPageDropped(data) ==
  /\ paged.pc = "loop"
  /\ paged.all_results < paged.max_records
  /\ LET asked == [paged EXCEPT !.param_skip = [present |-> TRUE, value |-> paged.skip],
                                !.requests = @ + 1,
                                !.pages = Append(@, data)]
     IN  paged' =
           IF NoMoreData(data) THEN [asked EXCEPT !.pc = "out"]
           ELSE [asked EXCEPT
                   !.pc = IF ShortPage(data.n, paged.limit)
                          THEN "out" ELSE "loop"]
  /\ UnchangedByPages

\* lines 150-162: one round of the loop, with data the answer to the page
FetchPage(data) ==
  /\ paged.pc = "loop"
  /\ paged.all_results < paged.max_records
  /\ LET asked == [paged EXCEPT !.param_skip = [present |-> TRUE, value |-> paged.skip],
                                !.requests = @ + 1,
                                !.pages = Append(@, data)]
     IN  paged' =
           IF NoMoreData(data) THEN [asked EXCEPT !.pc = "out"]
           ELSE [asked EXCEPT
                   !.all_results = @ + data.n,
                   !.skip = @ + data.n,
                   !.pc = IF ShortPage(data.n, paged.limit)
                          THEN "out" ELSE "loop"]
  /\ UnchangedByPages

\* line 150: the loop ends when max_records are gathered
LoopExit ==
  /\ paged.pc = "loop"
  /\ ~(paged.all_results < paged.max_records)
  /\ paged' = [paged EXCEPT !.pc = "out"]
  /\ UnchangedByPages

\* xs[:m] for a list of len items: the first m, or all but the last -m
SliceLen(len, m) ==
  IF m >= 0 THEN Min(len, m)
  ELSE IF len + m > 0 THEN len + m ELSE 0

\* line 164: all_results[:max_records]
ReturnPages ==
  /\ paged.pc = "out"
  /\ paged' = [paged EXCEPT
                 !.pc = "done",
                 !.ret = SliceLen(paged.all_results, paged.max_records)]
  /\ UnchangedByPages

NextPages ==
  \/ \E data \in PageData : FetchPage(data)
  \/ LoopExit
  \/ ReturnPages

SpecPages == InitPages /\ [][NextPages]_vars

\* the upstream answered every page so far with exactly n records
EveryPageHas(n) ==
  \A i \in DOMAIN paged.pages :
    paged.pages[i] = [kind |-> "results", n |-> n]

\* C10: with max_records = 250, against an upstream that answers every page
\* with exactly 100 records, fetch_all_pages makes exactly 3 page requests
\* and returns exactly 250 records; when page 2 comes back with 0 records it
\* stops after that page and returns the 100 records of page 1.
C10_PaginationTerminates ==
  (paged.max_records = 250 /\ paged.pages /= <<>>) =>
    /\ EveryPageHas(100) => paged.requests <= 3
    /\ (paged.pc = "done" /\ EveryPageHas(100)) =>
         (paged.requests = 3 /\ paged.ret = 250)
    /\ (/\ Len(paged.pages) >= 2
        /\ paged.pages[1] = [kind |-> "results", n |-> 100]
        /\ paged.pages[2] = [kind |-> "results", n |-> 0])
       => /\ paged.pc \in {"out", "done"}
          /\ paged.requests = 2
          /\ paged.pc = "done" => paged.ret = 100

\* the run of 250 records over three full pages has returned
C10_Witness ==
  /\ paged.pc = "done"
  /\ paged.max_records = 250
  /\ Len(paged.pages) = 3
  /\ EveryPageHas(100)
  /\ paged.ret = 250

\* the records of the first i pages
RECURSIVE RecordsUpTo(_)
RecordsUpTo(i) ==
  IF i = 0 THEN 0
  ELSE RecordsUpTo(i - 1)
       + (IF paged.pages[i].kind = "results" THEN paged.pages[i].n ELSE 0)

\* page i leaves the loop free to ask for another page: it is not an error,
\* it brought as many records as its request asked for (the "limit" the
\* request carried), and max_records are not gathered yet
MayAskAgain(i) ==
  /\ paged.pages[i].kind = "results"
  /\ paged.pages[i].n >= paged.param_limit
  /\ RecordsUpTo(i) < paged.max_records

\* C11: fetch_all_pages asks for no further page once the accumulated count
\* has reached max_records, or a page brought fewer records than its request
\* asked for, or the gateway returned an error-shaped result; and what it
\* returns is the accumulated records cut to max_records, never longer.
C11_PaginationStops ==
  /\ \A i \in DOMAIN paged.pages : i < Len(paged.pages) => MayAskAgain(i)
  /\ paged.pc = "done" =>
       /\ paged.ret <= paged.max_records
       /\ paged.ret <= paged.all_results
       /\ paged.ret = paged.max_records \/ paged.ret = paged.all_results

\* C22: every page request of fetch_all_pages carries limit =
\* min(100, max_records) and skip = the number of records gathered before
\* it (0 for the first), whatever params the caller passed, a "limit" entry
\* of its own included; and a page shorter than the limit that was sent is
\* the last one asked for.
C22_PageRequestParams ==
  paged.requests > 0 =>
    /\ paged.param_limit =
         (IF paged.max_records < PageLimit THEN paged.max_records
          ELSE PageLimit)
    /\ paged.param_skip.present
    /\ paged.param_skip.value = RecordsUpTo(Len(paged.pages) - 1)
    /\ \A i \in DOMAIN paged.pages :
         (paged.pages[i].kind = "results"
            /\ paged.pages[i].n < paged.param_limit)
           => i = Len(paged.pages)

\* ------------------------------------------------------------------------
\* Two threads fetching the same uncached key at the same time (SpecSame)
\* ------------------------------------------------------------------------

\* the threads that call
Twins == {1, 2}

InitSame ==
  /\ InitThreads([c \in Callers |->
       IF c \in Twins THEN IdleCaller(1, {1}) ELSE IdleCaller(0, {})])
  /\ sequential = FALSE
  /\ clr = [pc |-> "idle", budget |-> 0]

NextSame ==
  \/ \E c \in Callers :
       \/ \E k \in Keys : CallStart(c, k, FALSE)
       \/ CheckCache(c)
       \/ ReadTimestamp(c)
       \/ ReadValue(c)
       \/ PutRequest(c)
       \/ GetResponse(c)
       \/ GetTimeout(c)
       \/ StoreData(c)
       \/ StoreTimestamp(c)
  \/ \E w \in Workers :
       \/ WorkerTake(w)
       \/ RateEnter(w)
       \/ \E resp \in Responses : WorkerRespond(w, resp)
  \/ Tick(WaitTimeout, MaxTicks)

\* every thread goes on when it can: callers and workers are scheduled, the
\* upstream answers each request in the end and the clock does not stop
SpecSame == InitSame /\ [][NextSame]_vars /\ WF_vars(NextSame)

\* c has returned a payload for its key: a result taken off response_queue
\* under that key, or the timeout error
ReturnedPayload(c) ==
  /\ caller[c].pc = "done"
  /\ caller[c].via \in {"miss", "timeout"}
  /\ caller[c].ret \in AllPayloads

BothEnqueued == \A c \in Twins : HasEnqueued(c)

WroteEntry(c, k, payload, timestamp) ==
  /\ caller[c].pc = "done"
  /\ caller[c].via = "miss"
  /\ caller[c].key = k
  /\ caller[c].ret = payload
  /\ caller[c].now = timestamp

\* no call is between its two writes
NoWriteUnderWay == \A c \in Callers : caller[c].pc \notin {"store", "stamp"}

\* C19: for every key the stored value and the stored timestamp come from
\* the same write, under any interleaving of concurrent calls: whenever no
\* write is under way, each entry of cache_data is paired in
\* cache_timestamps with the timestamp that the call which wrote that value
\* wrote with it.
C19_EntriesAreWhole ==
  NoWriteUnderWay =>
    \A k \in DOMAIN cache_data :
      /\ k \in DOMAIN cache_timestamps
      /\ \E c \in Callers :
           WroteEntry(c, k, cache_data[k], cache_timestamps[k])

\* ------------------------------------------------------------------------
\* clear_cache called by one thread while another fetches (SpecRace)
\* ------------------------------------------------------------------------

\* a thread that fetches one key twice, and a thread that clears the cache
InitRace ==
  /\ InitThreads([c \in Callers |->
       IF c = 1 THEN IdleCaller(2, {1}) ELSE IdleCaller(0, {})])
  /\ sequential = FALSE
  /\ clr = [pc |-> "idle", budget |-> 1]

NextRace ==
  \/ \E c \in Callers :
       \/ \E k \in Keys : CallStart(c, k, FALSE)
       \/ CheckCache(c)
       \/ ReadTimestamp(c)
       \/ ReadValue(c)
       \/ PutRequest(c)
       \/ GetResponse(c)
       \/ StoreData(c)
       \/ StoreTimestamp(c)
  \/ \E w \in Workers :
       \/ WorkerTake(w)
       \/ RateEnter(w)
       \/ \E resp \in Responses : WorkerRespond(w, resp)
  \/ ClearData
  \/ ClearTimestamps

SpecRace == InitRace /\ [][NextRace]_vars

\* C20: the cache steps of fetch_with_cache and those of clear_cache exclude
\* one another (clear_cache is never half done while a fetch is between its
\* cache steps, and does not start there), so that no fetch fails between
\* finding its key present and reading the value.
C20_CacheGuarded ==
  \A c \in Callers :
    /\ caller[c].pc /= "raised"
    /\ (caller[c].pc = "readval" /\ clr.pc = "idle") =>
         caller[c].key \in DOMAIN cache_data

\* C30: in every state in which no fetch_with_cache call and no clear_cache
\* call is in the middle of executing, cache_data and cache_timestamps have
\* the same set of keys, whatever the interleaving of the concurrent calls
\* that led there.
C30_CacheMapsConsistent ==
  (Quiet /\ clr.pc = "idle") => DOMAIN cache_data = DOMAIN cache_timestamps

\* ------------------------------------------------------------------------
\* fetch_all_pages over every max_records the signature admits, zero and
\* negative numbers included, run to its end (SpecPagesAny)
\* ------------------------------------------------------------------------

AnyMaxRecords == MaxRecordsChoices \cup {-1, 0}

InitPagesAny ==
  /\ InitShared
  /\ caller = [c \in Callers |-> IdleCaller(0, {})]
  /\ worker = [w \in Workers |-> IdleWorker]
  /\ sequential = TRUE
  /\ clr = [pc |-> "idle", budget |-> 0]
  /\ keyed = <<>>
  /\ \E m \in AnyMaxRecords, l \in ParamLimitChoices :
       LET limit == Min(PageLimit, m)
       IN  paged = [pc |-> "loop", max_records |-> m, limit |-> limit,
                    param_limit |-> IF l.present THEN l.value ELSE limit,
                    param_skip |-> [present |-> FALSE, value |-> 0],
                    skip |-> 0, all_results |-> 0,
                    requests |-> 0, pages |-> <<>>, ret |-> 0]

\* every call of fetch_with_cache returns, and the thread goes on
SpecPagesAny == InitPagesAny /\ [][NextPages]_vars /\ WF_vars(NextPages)

\* the most rounds the loop can make: a round that goes on adds a record
RoundsBound == IF paged.max_records > 0 THEN paged.max_records ELSE 0

\* C29: fetch_all_pages terminates when every fetch_with_cache call it
\* makes returns, for every max_records (zero and negative included), every
\* params and every sequence of pages (empty, short, longer than the limit,
\* errors): the rounds of the loop are bounded, and every round that does
\* not stop the loop strictly increases the accumulated count.
C29_PagingTerminates ==
  /\ <>(paged.pc = "done")
  /\ [](paged.requests <= RoundsBound)
  /\ [][(paged.pc = "loop" /\ paged'.pc = "loop")
          => paged'.all_results > paged.all_results]_vars

\* a run has returned after three rounds, one of them with a page longer
\* than the limit
C29_Witness ==
  /\ paged.pc = "done"
  /\ paged.requests = 3
  /\ \E i \in DOMAIN paged.pages : paged.pages[i].n > paged.limit

\* ------------------------------------------------------------------------
\* fetch_all_pages twice with equal arguments (SpecRepeat): each page is a
\* whole call of fetch_with_cache by one thread, with its cache lookup, its
\* request and the worker's processing of the task; the clock stands still,
\* so every entry stays fresh.
\* ------------------------------------------------------------------------

\* the caller's params: a dict without "limit" and "skip"
RepeatParams ==
  { [given |-> TRUE, items |-> <<>>],
    [given |-> TRUE, items |-> << <<"search", [type |-> "str", text |-> "a"]>> >>] }

\* max_records of the two calls
RepeatMaxRecords == {100, 250}

\* the number of records the upstream has for the query
UpstreamTotals == {150, 250, 1000}

\* str(n), lines 147 and 151
Str(n) == [type |-> "str", text |-> ToString(n)]

\* the upstream's page for skip and limit: the records from skip on
UpstreamPage(total, skip, limit) ==
  IF total - skip <= 0 THEN 0 ELSE Min(limit, total - skip)

\* lines 142-149 of a call: the copy of params with its "limit"
PagingLocals(params, m) ==
  [current_params |-> SetItem(params.items, "limit", Str(Min(PageLimit, m))),
   limit |-> Min(PageLimit, m), skip |-> 0, all_results |-> 0]

InitRepeat ==
  /\ InitShared
  /\ caller = [c \in Callers |-> IdleCaller(0, {})]
  /\ worker = [w \in Workers |-> IdleWorker]
  /\ sequential = TRUE
  /\ clr = [pc |-> "idle", budget |-> 0]
  /\ keyed = <<>>
  /\ \E configured \in BOOLEAN, p \in RepeatParams, m \in RepeatMaxRecords,
        total \in UpstreamTotals :
       paged = [pc |-> "loop", run |-> 1, api_key |-> configured,
                params |-> p, max_records |-> m, total |-> total,
                local |-> PagingLocals(p, m),
                requests |-> <<0, 0>>, ret |-> <<0, 0>>]

UnchangedByRepeat ==
  UNCHANGED <<clock, request_queue, response_queue, caller, worker,
              request_times, rl_lock, rl_returns, http_in_flight, clr,
              sequential, keyed>>

\* lines 150-162 with the call of line 152 in full: a fresh entry is
\* returned (lines 113-117); otherwise the task goes to a worker, which adds
\* the API key to the dict of the task (lines 75-78), and the answer is
\* stored (lines 128-129)
RepeatPage ==
  /\ paged.pc = "loop"
  /\ paged.local.all_results < paged.max_records
  /\ LET asked == SetItem(paged.local.current_params, "skip",
                          Str(paged.local.skip))
         k == cache_key(Endpoint, [given |-> TRUE, items |-> asked])
         hit == FreshEntry(k, clock)
         n == IF hit THEN cache_data[k].results
              ELSE UpstreamPage(paged.total, paged.local.skip,
                                paged.local.limit)
         left == IF hit THEN asked
                 ELSE AfterApiKey(paged.api_key,
                                  [given |-> TRUE, items |-> asked]).items
     IN  /\ cache_data' = IF hit THEN cache_data
                          ELSE DictPut(cache_data, k, Payload(NoEntry, n))
         /\ cache_timestamps' = IF hit THEN cache_timestamps
                                ELSE DictPut(cache_timestamps, k, clock)
         /\ http_calls' = IF hit THEN http_calls ELSE http_calls + 1
         /\ paged' =
              [paged EXCEPT
                 !.requests[paged.run] = IF hit THEN @ ELSE @ + 1,
                 !.local.current_params = left,
                 !.local.all_results = IF n = 0 THEN @ ELSE @ + n,
                 !.local.skip = IF n = 0 THEN @ ELSE @ + n,
                 !.pc = IF n = 0 \/ ShortPage(n, paged.local.limit)
                        THEN "out" ELSE "loop"]
  /\ UnchangedByRepeat

\* line 150: max_records are gathered
RepeatLoopExit ==
  /\ paged.pc = "loop"
  /\ ~(paged.local.all_results < paged.max_records)
  /\ paged' = [paged EXCEPT !.pc = "out"]
  /\ UNCHANGED <<cache_data, cache_timestamps, http_calls>>
  /\ UnchangedByRepeat

\* line 164
RepeatReturn ==
  /\ paged.pc = "out"
  /\ paged' = [paged EXCEPT
                 !.pc = "returned",
                 !.ret[paged.run] = Min(paged.local.all_results,
                                        paged.max_records)]
  /\ UNCHANGED <<cache_data, cache_timestamps, http_calls>>
  /\ UnchangedByRepeat

\* the second call, with arguments equal to those of the first
RepeatAgain ==
  /\ paged.pc = "returned"
  /\ paged.run = 1
  /\ paged' = [paged EXCEPT !.pc = "loop", !.run = 2,
                            !.local = PagingLocals(paged.params,
                                                   paged.max_records)]
  /\ UNCHANGED <<cache_data, cache_timestamps, http_calls>>
  /\ UnchangedByRepeat

NextRepeat == RepeatPage \/ RepeatLoopExit \/ RepeatReturn \/ RepeatAgain

SpecRepeat == InitRepeat /\ [][NextRepeat]_vars

\* C25: when fetch_all_pages completed with every page successful, a second
\* call with equal arguments within CACHE_TTL and without clear_cache in
\* between issues no upstream request and returns the same list, with and
\* without a configured API key.
C25_RepeatPagingFromCache ==
  paged.run = 2 =>
    /\ paged.requests[2] = 0
    /\ paged.pc = "returned" => paged.ret[2] = paged.ret[1]

\* ------------------------------------------------------------------------
\* Progress of the pool (SpecProgress): one thread makes more calls than
\* the rate limiter admits in a window, so that a worker sleeps inside
\* wait_if_needed with the lock held while the next task waits for the
\* lock.  Every upstream request is answered at once; time passes only
\* while a worker sleeps.
\* ------------------------------------------------------------------------

\* calls enough for one sleep and a task behind it
ProgressCalls == requests_per_min + 2

InitProgress ==
  /\ InitThreads([c \in Callers |->
       IF c = 1 THEN IdleCaller(ProgressCalls, {1}) ELSE IdleCaller(0, {})])
  /\ sequential = TRUE
  /\ clr = [pc |-> "idle", budget |-> 0]

\* the steps of a call of fetch_with_cache that has begun
CallSteps(c) ==
  \/ CheckCache(c)
  \/ ReadTimestamp(c)
  \/ ReadValue(c)
  \/ PutRequest(c)
  \/ GetResponse(c)
  \/ GetTimeout(c)
  \/ StoreData(c)
  \/ StoreTimestamp(c)

\* the steps of a worker thread
WorkerSteps(w) ==
  \/ WorkerTake(w)
  \/ RateEnter(w)
  \/ RateWake(w)
  \/ \E resp \in PoolResponses : WorkerRespond(w, resp)

\* time.sleep of line 52 goes by
SleepTick ==
  /\ \E w \in Workers : worker[w].pc = "sleep"
  /\ Tick(WaitTimeout, 2 * ProgressCalls)

NextProgress ==
  \/ \E c \in Callers :
       \/ \E k \in Keys, f \in BOOLEAN : CallStart(c, k, f)
       \/ CallSteps(c)
  \/ \E w \in Workers : WorkerSteps(w)
  \/ SleepTick

\* threads are scheduled fairly, the upstream answers, and sleeps end
SpecProgress ==
  /\ InitProgress
  /\ [][NextProgress]_vars
  /\ \A c \in Callers : WF_vars(CallSteps(c))
  /\ \A w \in Workers : WF_vars(WorkerSteps(w))
  /\ WF_vars(SleepTick)

\* results that workers have put on response_queue so far
Answered == http_calls - http_in_flight

\* C28: the pool makes progress although a worker asleep in wait_if_needed
\* holds the rate limiter's lock and so blocks the other workers: with fair
\* scheduling and an upstream that answers, every task put on request_queue
\* is taken by a worker and its result is put on response_queue (the n-th
\* task is followed by the n-th result).
C28_PoolProgress ==
  \A n \in 1..ProgressCalls : (TasksSoFar >= n) ~> (Answered >= n)

\* a worker sleeps with the lock in hand, another one waits for the lock
\* with the next task, and the tasks before them were answered
C28_Witness ==
  \E w, v \in Workers :
    /\ worker[w].pc = "sleep"
    /\ rl_lock = w
    /\ worker[v].pc = "rate"
    /\ worker[v].task /= 0
    /\ Answered = requests_per_min

====
